---------------------------- MODULE Spec2Model ----------------------------
(***************************************************************************)
(* Three stand-alone programs of the repository, each modelled statement   *)
(* by statement as a state machine over its local variables:               *)
(*   bubbleSort       (Сортировка бусинами.cpp)                            *)
(*   heapify/heapSort (пирамидальная сортировка.cpp)                       *)
(*   fibonacciSearch  (поиск по фибоначчи.cpp)                             *)
(* Each program has its own specification (SpecBubble, SpecHeap, SpecFib); *)
(* the variables of the two programs that do not run stay at rest.         *)
(* C++ indices are zero-based; At(s, k) reads index k of sequence s.       *)
(***************************************************************************)
EXTENDS Integers, Sequences, FiniteSets

VARIABLES
    pc,          \* position of the running program
    input,       \* the sequence the caller passed (kept for comparison)
    beads,       \* bubbleSort: the vector being sorted
    i,           \* loop variable i (bubbleSort, heapSort) / probe index (fibonacciSearch)
    j,           \* bubbleSort: inner loop variable
    swapped,     \* bubbleSort: the flag of the current pass
    passes,      \* bubbleSort: passes started
    comparisons, \* bubbleSort: adjacent comparisons made
    exchanges,   \* bubbleSort: std::swap calls made
    oob,         \* bubbleSort: an index outside the vector was accessed
    arr,         \* heapSort / fibonacciSearch: the vector
    n,           \* heapSort / fibonacciSearch: int n = arr.size()
    heapN,       \* heapify: parameter n (the active bound)
    heapI,       \* heapify: parameter i (the node being sifted)
    caller,      \* heapify: which loop of heapSort called it
    touched,     \* heapify: indices read or written since heapSort called it
    calls,       \* heapSort: number of calls made on this vector
    first,       \* heapSort: the vector as the first call left it
    target,      \* fibonacciSearch: the value looked for
    fibMMm2,     \* fibonacciSearch
    fibMMm1,     \* fibonacciSearch
    fibM,        \* fibonacciSearch
    offset,      \* fibonacciSearch
    reads,       \* fibonacciSearch: indices at which arr was read
    result       \* fibonacciSearch: the returned value

vars == <<pc, input, beads, i, j, swapped, passes, comparisons, exchanges, oob,
          arr, n, heapN, heapI, caller, touched, calls, first,
          target, fibMMm2, fibMMm1, fibM, offset, reads, result>>

bubbleVars == <<beads, j, swapped, passes, comparisons, exchanges, oob>>
heapVars   == <<heapN, heapI, caller, touched, calls, first>>
fibVars    == <<target, fibMMm2, fibMMm1, fibM, offset, reads, result>>

---------------------------------------------------------------------------
(* Bounds of the model *)

\* longest vector given to the two sorts
MaxLen == 5
\* longest vector given to the search
MaxFibLen == 6
\* the elements of the vectors given to the sorts range over 0..MaxVal
MaxVal == 3
\* the elements given to the search, and its targets, range over 0..MaxFibVal
MaxFibVal == 2
\* heapSort is run this many times in a row on the same vector
Runs == 2

Values == 0..MaxVal

SeqsUpTo(len) == UNION {[1..k -> Values] : k \in 0..len}

---------------------------------------------------------------------------
(* Helpers shared by the three programs *)

At(s, k) == s[k + 1]

InRange(s, k) == k >= 0 /\ k < Len(s)

\* std::swap(s[a], s[b])
Swap(s, a, b) == [s EXCEPT ![a + 1] = s[b + 1], ![b + 1] = s[a + 1]]

IsSorted(s) == \A k \in 1..(Len(s) - 1) : s[k] <= s[k + 1]

Count(s, v) == Cardinality({k \in 1..Len(s) : s[k] = v})

\* same length and same multiset of values
SameElements(s, t) ==
    /\ Len(s) = Len(t)
    /\ \A v \in Values : Count(s, v) = Count(t, v)

Min(a, b) == IF a < b THEN a ELSE b

---------------------------------------------------------------------------
(* bubbleSort *)

\* size_t wraps around; TLC's integers are 32 bits wide, so the model gives
\* size_t 30 bits: 0 - 1 is still the largest value of the type.
SizeMod == 2^30

SizeSub(a, b) == (a - b) % SizeMod

\* beads.size() - 1, the bound of the outer loop
OuterBound(size) == SizeSub(size, 1)

\* beads.size() - i - 1, the bound of the inner loop
InnerBound(size, k) == SizeSub(SizeSub(size, k), 1)

BubbleRest ==
    /\ beads = <<>> /\ j = 0 /\ swapped = FALSE /\ passes = 0
    /\ comparisons = 0 /\ exchanges = 0 /\ oob = FALSE

HeapRest ==
    /\ heapN = 0 /\ heapI = 0 /\ caller = "none" /\ touched = {}
    /\ calls = 0 /\ first = <<>>

FibRest ==
    /\ target = 0 /\ fibMMm2 = 0 /\ fibMMm1 = 0 /\ fibM = 0 /\ offset = 0
    /\ reads = {} /\ result = 0

InitBubble ==
    /\ input \in SeqsUpTo(MaxLen)
    /\ beads = input
    /\ pc = "start"
    /\ i = 0 /\ j = 0 /\ swapped = FALSE
    /\ passes = 0 /\ comparisons = 0 /\ exchanges = 0 /\ oob = FALSE
    /\ arr = <<>> /\ n = 0
    /\ HeapRest /\ FibRest

\* the call: bool swapped; size_t i = 0
BubbleSortEntry ==
    /\ pc = "start"
    /\ i' = 0
    /\ pc' = "outer"
    /\ UNCHANGED <<input, bubbleVars, arr, n, heapVars, fibVars>>

\* for (...; i < beads.size() - 1; ...) { swapped = false; size_t j = 0;
BubbleOuterEnter ==
    /\ pc = "outer"
    /\ i < OuterBound(Len(beads))
    /\ swapped' = FALSE
    /\ j' = 0
    /\ passes' = passes + 1
    /\ pc' = "inner"
    /\ UNCHANGED <<input, beads, i, comparisons, exchanges, oob, arr, n, heapVars, fibVars>>

\* the outer loop's condition fails: return
BubbleOuterExit ==
    /\ pc = "outer"
    /\ ~(i < OuterBound(Len(beads)))
    /\ pc' = "done"
    /\ UNCHANGED <<input, bubbleVars, i, arr, n, heapVars, fibVars>>

\* one iteration of the inner loop, both indices inside the vector
BubbleInnerStep ==
    /\ pc = "inner"
    /\ j < InnerBound(Len(beads), i)
    /\ InRange(beads, j) /\ InRange(beads, j + 1)
    /\ comparisons' = comparisons + 1
    /\ IF At(beads, j) > At(beads, j + 1)
         THEN /\ beads' = Swap(beads, j, j + 1)
              /\ swapped' = TRUE
              /\ exchanges' = exchanges + 1
         ELSE UNCHANGED <<beads, swapped, exchanges>>
    /\ j' = j + 1
    /\ UNCHANGED <<pc, input, i, passes, oob, arr, n, heapVars, fibVars>>

\* one iteration of the inner loop with beads[j] or beads[j + 1] outside the
\* vector: undefined behaviour, the program faults or carries on somehow
BubbleOutOfBounds ==
    /\ pc = "inner"
    /\ j < InnerBound(Len(beads), i)
    /\ ~(InRange(beads, j) /\ InRange(beads, j + 1))
    /\ oob' = TRUE
    /\ pc' \in {"crashed", "done"}
    /\ UNCHANGED <<input, beads, i, j, swapped, passes, comparisons, exchanges,
                   arr, n, heapVars, fibVars>>

\* the variant without the early exit
BubblePassEndNoBreak ==
    /\ pc = "inner"
    /\ ~(j < InnerBound(Len(beads), i))
    /\ i' = i + 1
    /\ pc' = "outer"
    /\ UNCHANGED <<input, bubbleVars, arr, n, heapVars, fibVars>>

\* the inner loop's condition fails: if (!swapped) break; else ++i
BubblePassEnd ==
    /\ pc = "inner"
    /\ ~(j < InnerBound(Len(beads), i))
    /\ IF ~swapped
         THEN pc' = "done" /\ i' = i
         ELSE pc' = "outer" /\ i' = i + 1
    /\ UNCHANGED <<input, bubbleVars, arr, n, heapVars, fibVars>>

NextBubble ==
    \/ BubbleSortEntry
    \/ BubbleOuterEnter
    \/ BubbleOuterExit
    \/ BubbleInnerStep
    \/ BubbleOutOfBounds
    \/ BubblePassEnd

SpecBubble == InitBubble /\ [][NextBubble]_vars

---------------------------------------------------------------------------
(* Claims about bubbleSort *)

BubbleEnded == pc \in {"done", "crashed"}

\* C1: for every sequence, of any length including 0 and 1, bubbleSort returns
\* and leaves a sequence of the same length, with the same multiset of values,
\* in non-decreasing order.
BubbleSortsEverySequence ==
    BubbleEnded =>
        /\ pc = "done"
        /\ ~oob
        /\ SameElements(beads, input)
        /\ IsSorted(beads)

\* C2: on an empty or single-element sequence bubbleSort is a no-op: the loop
\* bounds give an empty range (no pass is started), no index is read or
\* written, and the sequence is returned unchanged.
BubbleDegenerateNoOp ==
    Len(input) <= 1 =>
        /\ passes = 0
        /\ comparisons = 0
        /\ ~oob
        /\ pc # "crashed"
        /\ beads = input

\* C9: no pass is started after a pass without exchange (whenever the outer
\* loop is re-entered the pass before it exchanged something), and on a
\* non-decreasing input of length N >= 1 bubbleSort starts at most one pass,
\* makes no exchange, never leaves the vector, returns it unchanged and has
\* made exactly N - 1 comparisons when it returns.
BubbleEarlyExit ==
    /\ (pc = "outer" /\ passes > 0) => swapped
    /\ (Len(input) >= 1 /\ IsSorted(input)) =>
          /\ passes <= 1
          /\ exchanges = 0
          /\ ~oob /\ pc # "crashed"
          /\ beads = input
          /\ comparisons <= Len(input) - 1
          /\ pc = "done" => comparisons = Len(input) - 1

\* a sorted input of three or more elements has been returned after one pass
BubbleEarlyExitWitness ==
    /\ pc = "done"
    /\ Len(input) >= 3 /\ IsSorted(input)
    /\ passes = 1 /\ comparisons = Len(input) - 1

---------------------------------------------------------------------------
(* heapify and heapSort *)

\* the variant of heapify's selection that compares with < (a min-heap)
LargestLess(a, bound, node) ==
    LET left   == 2 * node + 1
        right  == 2 * node + 2
        afterL == IF left < bound /\ At(a, left) < At(a, node) THEN left ELSE node
    IN  IF right < bound /\ At(a, right) < At(a, afterL) THEN right ELSE afterL

\* heapify, lines 6-16: the index of the largest of {node, left, right},
\* a child being compared only when its index is below the bound
Largest(a, bound, node) ==
    LET left   == 2 * node + 1
        right  == 2 * node + 2
        afterL == IF left < bound /\ At(a, left) > At(a, node) THEN left ELSE node
    IN  IF right < bound /\ At(a, right) > At(a, afterL) THEN right ELSE afterL

\* the indices one activation of heapify reads or writes
Accessed(a, bound, node) ==
    LET left   == 2 * node + 1
        right  == 2 * node + 2
        afterL == IF left < bound /\ At(a, left) > At(a, node) THEN left ELSE node
        lg     == Largest(a, bound, node)
    IN  (IF left < bound THEN {left, node} ELSE {})
          \cup (IF right < bound THEN {right, afterL} ELSE {})
          \cup (IF lg # node THEN {node, lg} ELSE {})

InitHeap ==
    /\ input \in SeqsUpTo(MaxLen)
    /\ arr = input
    /\ pc = "start"
    /\ n = 0 /\ i = 0
    /\ HeapRest /\ BubbleRest /\ FibRest

\* heapSort is called (again): int n = arr.size(); int i = n / 2 - 1
HeapSortEntry ==
    /\ pc \in {"start", "returned"}
    /\ calls < Runs
    /\ calls' = calls + 1
    /\ n' = Len(arr)
    /\ i' = (Len(arr) \div 2) - 1
    /\ pc' = "build"
    /\ UNCHANGED <<input, arr, heapN, heapI, caller, touched, first, bubbleVars, fibVars>>

\* first loop, i >= 0: heapify(arr, n, i)
BuildCall ==
    /\ pc = "build"
    /\ i >= 0
    /\ heapN' = n
    /\ heapI' = i
    /\ caller' = "build"
    /\ touched' = {}
    /\ pc' = "heapify"
    /\ UNCHANGED <<input, arr, n, i, calls, first, bubbleVars, fibVars>>

\* first loop ends; second loop starts with int i = n - 1
BuildExit ==
    /\ pc = "build"
    /\ ~(i >= 0)
    /\ i' = n - 1
    /\ pc' = "extract"
    /\ UNCHANGED <<input, arr, n, heapVars, bubbleVars, fibVars>>

\* the variant of the second loop that re-heapifies with the bound i + 1
ExtractCallWideBound ==
    /\ pc = "extract"
    /\ i > 0
    /\ arr' = Swap(arr, 0, i)
    /\ heapN' = i + 1
    /\ heapI' = 0
    /\ caller' = "extract"
    /\ touched' = {}
    /\ pc' = "heapify"
    /\ UNCHANGED <<input, n, i, calls, first, bubbleVars, fibVars>>

\* second loop, i > 0: swap(arr[0], arr[i]); heapify(arr, i, 0)
ExtractCall ==
    /\ pc = "extract"
    /\ i > 0
    /\ arr' = Swap(arr, 0, i)
    /\ heapN' = i
    /\ heapI' = 0
    /\ caller' = "extract"
    /\ touched' = {}
    /\ pc' = "heapify"
    /\ UNCHANGED <<input, n, i, calls, first, bubbleVars, fibVars>>

\* second loop ends: heapSort returns
ExtractExit ==
    /\ pc = "extract"
    /\ ~(i > 0)
    /\ first' = IF calls = 1 THEN arr ELSE first
    /\ pc' = "returned"
    /\ UNCHANGED <<input, arr, n, i, heapN, heapI, caller, touched, calls,
                   bubbleVars, fibVars>>

\* one activation of heapify(arr, heapN, heapI): either it exchanges and
\* calls itself on the child (its last statement), or it returns to the loop
\* of heapSort that called it, which then decrements i
HeapifyStep ==
    /\ pc = "heapify"
    /\ touched' = touched \cup Accessed(arr, heapN, heapI)
    /\ LET largest == Largest(arr, heapN, heapI)
       IN  IF largest # heapI
             THEN /\ arr' = Swap(arr, heapI, largest)
                  /\ heapI' = largest
                  /\ UNCHANGED <<pc, i>>
             ELSE /\ pc' = caller
                  /\ i' = i - 1
                  /\ UNCHANGED <<arr, heapI>>
    /\ UNCHANGED <<input, n, heapN, caller, calls, first, bubbleVars, fibVars>>

NextHeap ==
    \/ HeapSortEntry
    \/ BuildCall
    \/ BuildExit
    \/ ExtractCall
    \/ ExtractExit
    \/ HeapifyStep

SpecHeap == InitHeap /\ [][NextHeap]_vars

---------------------------------------------------------------------------
(* Claims about heapSort *)

\* a[(c-1)/2] >= a[c] for every index c in 1..size-1
IsMaxHeap(a, size) ==
    \A c \in 1..(size - 1) : At(a, (c - 1) \div 2) >= At(a, c)

\* C3: when heapSort returns, the sequence has the length and the multiset of
\* values of the input and is in non-decreasing order; a sequence of length 0
\* or 1 is never changed and heapify is never called on it.
HeapSortSorts ==
    /\ pc = "returned" => (SameElements(arr, input) /\ IsSorted(arr))
    /\ Len(input) <= 1 => (arr = input /\ pc # "heapify" /\ touched = {})

\* a sequence that was not sorted has been returned by the first call
HeapSortSortsWitness ==
    /\ pc = "returned" /\ calls = 1
    /\ ~IsSorted(input)
    /\ Len(input) >= 4
    /\ arr # input

\* C7: a second heapSort on the result of the first returns the same sequence,
\* element for element, although it exchanges elements in between.
HeapSortIdempotent ==
    (pc = "returned" /\ calls >= 2) => arr = first

\* the second call has returned; what it was given was sorted with distinct
\* ends (not a max-heap, so it had to exchange) and differs from the input
HeapSortIdempotentWitness ==
    /\ pc = "returned" /\ calls = 2
    /\ Len(input) >= 3
    /\ first # input
    /\ At(first, 0) < At(first, Len(first) - 1)
    /\ arr = first

\* C8: at the head of the extraction loop (first when the construction loop
\* has just ended, i = n - 1, then after each extraction iteration) the prefix
\* arr[0..i] is a max-heap, the suffix arr[i+1..n-1] is non-decreasing and
\* every suffix element is >= every prefix element; and heapify never reads
\* or writes an index at or above its bound, which in the extraction loop is i.
HeapSuffixInvariant ==
    /\ pc = "extract" =>
          /\ IsMaxHeap(arr, i + 1)
          /\ \A c \in (i + 1)..(n - 2) : At(arr, c) <= At(arr, c + 1)
          /\ \A p \in 0..i : \A q \in (i + 1)..(n - 1) : At(arr, p) <= At(arr, q)
    /\ (pc = "extract" /\ i = n - 1) => IsMaxHeap(arr, n)
    /\ \A k \in touched : k >= 0 /\ k < heapN
    /\ (pc = "heapify" /\ caller = "extract") => heapN = i

\* an extraction iteration in the middle of a longer vector has just ended
HeapSuffixInvariantWitness ==
    /\ pc = "extract"
    /\ n >= 4 /\ i = 2
    /\ touched # {}
    /\ ~IsSorted(input)

---------------------------------------------------------------------------
(* fibonacciSearch *)

FibValues == 0..MaxFibVal

FibSeqs == UNION {[1..k -> FibValues] : k \in 0..MaxFibLen}

\* What reading a[k] gives: the element when k is inside the vector; outside
\* it the behaviour is undefined: a fault, or some value.
ReadOutcomes(a, k) ==
    IF InRange(a, k)
      THEN {[trap |-> FALSE, v |-> At(a, k)]}
      ELSE {[trap |-> TRUE, v |-> 0]} \cup {[trap |-> FALSE, v |-> x] : x \in FibValues}

\* the variant of the first loop's condition with <=
GenContinueLeq(fm, size) == fm <= size

\* while (fibM < n)
GenContinue(fm, size) == fm < size

\* the variant of the probe index without the clamp to n - 1
ProbeIndexNoClamp(off, m2, size) == off + m2

\* std::min(offset + fibMMm2, n - 1)
ProbeIndex(off, m2, size) == Min(off + m2, size - 1)

\* lines 25-27, as <<fibMMm2, fibMMm1, fibM>> after the three assignments
ShiftLess(m2, m1, fm) ==
    LET newM  == m1
        newM1 == m2
    IN  <<newM - newM1, newM1, newM>>

\* lines 31-33, as <<fibMMm2, fibMMm1, fibM>> after the three assignments
ShiftGreater(m2, m1, fm) ==
    LET newM  == m2
        newM1 == m1 - m2
    IN  <<newM - newM1, newM1, newM>>

\* the variant of the bounds test that stops one short of the last index
ResidualGuardOffByOne(m1, off, size) == m1 # 0 /\ off + 1 < size - 1

\* fibMMm1 && offset + 1 < n, the two tests made before arr[offset + 1] is read
ResidualGuard(m1, off, size) == m1 # 0 /\ off + 1 < size

\* the variant of the last test that returns offset + 1 without comparing
ResidualResultUnchecked(v, t, off) == off + 1

\* ... && arr[offset + 1] == target) return offset + 1; return -1;
ResidualResult(v, t, off) == IF v = t THEN off + 1 ELSE -1

InitFib ==
    /\ arr \in FibSeqs
    /\ input = arr
    /\ target \in FibValues
    /\ pc = "start"
    /\ n = 0 /\ i = 0
    /\ fibMMm2 = 0 /\ fibMMm1 = 0 /\ fibM = 0 /\ offset = 0
    /\ reads = {} /\ result = 0
    /\ BubbleRest /\ HeapRest

\* the call, lines 6-11
FibonacciSearchEntry ==
    /\ pc = "start"
    /\ n' = Len(arr)
    /\ fibMMm2' = 0
    /\ fibMMm1' = 1
    /\ fibM' = 0 + 1
    /\ pc' = "gen"
    /\ UNCHANGED <<input, arr, i, target, offset, reads, result, bubbleVars, heapVars>>

\* one iteration of the first loop, lines 13-17
GenStep ==
    /\ pc = "gen"
    /\ GenContinue(fibM, n)
    /\ fibMMm2' = fibMMm1
    /\ fibMMm1' = fibM
    /\ fibM' = fibMMm1 + fibM
    /\ UNCHANGED <<pc, input, arr, n, i, target, offset, reads, result,
                   bubbleVars, heapVars>>

\* the first loop ends; int offset = -1
GenExit ==
    /\ pc = "gen"
    /\ ~GenContinue(fibM, n)
    /\ offset' = -1
    /\ pc' = "probe"
    /\ UNCHANGED <<input, arr, n, i, target, fibMMm2, fibMMm1, fibM, reads, result,
                   bubbleVars, heapVars>>

\* one iteration of the second loop, lines 21-38
Probe ==
    /\ pc = "probe"
    /\ fibM > 1
    /\ i' = ProbeIndex(offset, fibMMm2, n)
    /\ reads' = reads \cup {i'}
    /\ \E r \in ReadOutcomes(arr, i') :
          IF r.trap
            THEN /\ pc' = "crashed"
                 /\ UNCHANGED <<fibMMm2, fibMMm1, fibM, offset, result>>
            ELSE IF r.v < target
            THEN /\ LET t == ShiftLess(fibMMm2, fibMMm1, fibM)
                    IN  fibMMm2' = t[1] /\ fibMMm1' = t[2] /\ fibM' = t[3]
                 /\ offset' = i'
                 /\ UNCHANGED <<pc, result>>
            ELSE IF r.v > target
            THEN /\ LET t == ShiftGreater(fibMMm2, fibMMm1, fibM)
                    IN  fibMMm2' = t[1] /\ fibMMm1' = t[2] /\ fibM' = t[3]
                 /\ UNCHANGED <<pc, offset, result>>
            ELSE /\ result' = i'
                 /\ pc' = "done"
                 /\ UNCHANGED <<fibMMm2, fibMMm1, fibM, offset>>
    /\ UNCHANGED <<input, arr, n, target, bubbleVars, heapVars>>

\* the second loop ends; the last candidate is checked and the function
\* returns, lines 41-44
Residual ==
    /\ pc = "probe"
    /\ ~(fibM > 1)
    /\ IF ResidualGuard(fibMMm1, offset, n)
         THEN /\ reads' = reads \cup {offset + 1}
              /\ \E r \in ReadOutcomes(arr, offset + 1) :
                    IF r.trap
                      THEN pc' = "crashed" /\ result' = result
                      ELSE pc' = "done" /\ result' = ResidualResult(r.v, target, offset)
         ELSE /\ reads' = reads
              /\ result' = -1
              /\ pc' = "done"
    /\ UNCHANGED <<input, arr, n, i, target, fibMMm2, fibMMm1, fibM, offset,
                   bubbleVars, heapVars>>

NextFib ==
    \/ FibonacciSearchEntry
    \/ GenStep
    \/ GenExit
    \/ Probe
    \/ Residual

SpecFib == InitFib /\ [][NextFib]_vars

\* The function is sequential code: a step that can be taken is taken.
FairSpecFib == SpecFib /\ WF_vars(NextFib)

---------------------------------------------------------------------------
(* Claims about fibonacciSearch *)

Occurs(a, v) == \E k \in 1..Len(a) : a[k] = v

FibReadsInBounds ==
    /\ \A k \in reads : k >= 0 /\ k <= Len(arr) - 1
    /\ pc # "crashed"
    /\ Len(arr) = 0 => reads = {}

\* on a vector that is not sorted the probe was clamped to N - 1 and read
FibReadsInBoundsWitness ==
    /\ ~IsSorted(arr)
    /\ pc = "probe"
    /\ offset + fibMMm2 > n - 1
    /\ fibM > 1
    /\ (n - 1) \in reads

Fib[k \in Nat] == IF k <= 1 THEN k ELSE Fib[k - 1] + Fib[k - 2]

Max(a, b) == IF a > b THEN a ELSE b

\* (fibMMm2, fibMMm1, fibM) are consecutive Fibonacci numbers and fibM is the
\* smallest Fibonacci number >= max(n, 1)
GenPost ==
    /\ \E k \in 2..(n + 2) :
          fibMMm2 = Fib[k - 2] /\ fibMMm1 = Fib[k - 1] /\ fibM = Fib[k]
    /\ fibM >= Max(n, 1)
    /\ \A m \in 0..(n + 2) : Fib[m] >= Max(n, 1) => Fib[m] >= fibM

\* C10: the search terminates on every vector and target; the first loop ends
\* with consecutive Fibonacci numbers, fibM the smallest one >= max(N, 1); every
\* iteration of the second loop that does not return keeps
\* fibM = fibMMm1 + fibMMm2 with fibMMm2 >= 0 and makes fibM strictly smaller.
FibTerminates ==
    /\ <>(pc = "done")
    /\ [][(pc = "gen" /\ pc' = "probe") => GenPost']_vars
    /\ [][(pc = "probe" /\ pc' = "probe") =>
            /\ fibM' < fibM
            /\ fibM' = fibMMm1' + fibMMm2'
            /\ fibMMm2' >= 0]_vars

\* the search has returned -1 on an unsorted vector after the second loop
\* had run down from a triple above (1, 1, 2)
FibTerminatesWitness ==
    /\ pc = "done"
    /\ ~IsSorted(arr)
    /\ n >= 5
    /\ fibM <= 1
    /\ Cardinality(reads) >= 3
    /\ result = -1

=============================================================================
